---- MODULE Spec2Model ----
(***************************************************************************)
(* A model of src/main.py: the duplex relay between a client websocket and *)
(* an agent runtime session.  One connection is served by the coroutine    *)
(* websocket_endpoint (the coordinator) and the two tasks it creates,      *)
(* agent_to_client_messaging (outbound relay) and                          *)
(* client_to_agent_messaging (inbound relay).  asyncio is cooperative: an  *)
(* action of the model is the code one coroutine runs between two of its   *)
(* suspension points (await).                                              *)
(***************************************************************************)
EXTENDS Integers, Sequences, FiniteSets, TLC

\* ------------------------------------------------------------------ bounds

\* Inputs of the environment (runtime events consumed plus client frames
\* received), summed over all connections, that one behaviour may contain.
MaxInputs == 2

\* ---------------------------------------------------------------- universe

\* Connections (invocations of websocket_endpoint) the model can run.
Conns == {"c1", "c2"}

\* Values of the path parameter session_id.
SessionIds == {"s1", "s2"}

\* Values of the query parameter is_audio (a string, line 184).
QueryValues == {"true", "false", "1"}

\* ------------------------------------------------------------------ base64

\* The base64 alphabet; the value of a character is its position minus one.
B64Chars ==
  << "A","B","C","D","E","F","G","H","I","J","K","L","M","N","O","P",
     "Q","R","S","T","U","V","W","X","Y","Z","a","b","c","d","e","f",
     "g","h","i","j","k","l","m","n","o","p","q","r","s","t","u","v",
     "w","x","y","z","0","1","2","3","4","5","6","7","8","9","+","/" >>

B64Value(ch) == (CHOOSE i \in 1..64 : B64Chars[i] = ch) - 1

IsB64Char(ch) == \E i \in 1..64 : B64Chars[i] = ch

\* The outcome of a call that raised an exception.
Raise == [raised |-> TRUE]

\* binascii.a2b_base64 in its default, non-strict mode, as base64.b64decode
\* calls it (validate=False): characters outside the alphabet are skipped, a
\* complete pad sequence ends the decoding, and data that ends inside a quad
\* raises binascii.Error.  s is the string as a sequence of characters, the
\* result [raised |-> FALSE, bytes |-> <<...>>] or Raise.
RECURSIVE a2b_base64(_, _, _, _, _, _)
a2b_base64(s, i, quad_pos, leftchar, pads, out) ==
  IF i > Len(s)
    THEN IF quad_pos # 0 THEN Raise ELSE [raised |-> FALSE, bytes |-> out]
  ELSE IF s[i] = "="
    THEN IF quad_pos >= 2 /\ quad_pos + pads + 1 >= 4
           THEN [raised |-> FALSE, bytes |-> out]
           ELSE a2b_base64(s, i + 1, quad_pos, leftchar,
                           IF quad_pos >= 2 THEN pads + 1 ELSE pads, out)
  ELSE IF ~IsB64Char(s[i])
    THEN a2b_base64(s, i + 1, quad_pos, leftchar, pads, out)
  ELSE LET v == B64Value(s[i]) IN
    CASE quad_pos = 0 -> a2b_base64(s, i + 1, 1, v, 0, out)
      [] quad_pos = 1 -> a2b_base64(s, i + 1, 2, v % 16, 0,
                           Append(out, (leftchar * 4 + (v \div 16)) % 256))
      [] quad_pos = 2 -> a2b_base64(s, i + 1, 3, v % 4, 0,
                           Append(out, (leftchar * 16 + (v \div 4)) % 256))
      [] quad_pos = 3 -> a2b_base64(s, i + 1, 0, 0, 0,
                           Append(out, (leftchar * 64 + v) % 256))

\* base64.b64decode(data) of line 156.
b64decode(s) == a2b_base64(s, 1, 0, 0, 0, <<>>)

\* base64.b64encode(audio_data).decode("ascii") of line 125: three bytes give
\* four characters, a last group of one or two bytes is padded with "=".
RECURSIVE b64encode(_)
b64encode(b) ==
  IF Len(b) = 0 THEN <<>>
  ELSE IF Len(b) = 1
    THEN << B64Chars[(b[1] \div 4) + 1], B64Chars[(b[1] % 4) * 16 + 1], "=", "=" >>
  ELSE IF Len(b) = 2
    THEN << B64Chars[(b[1] \div 4) + 1],
            B64Chars[(b[1] % 4) * 16 + (b[2] \div 16) + 1],
            B64Chars[(b[2] % 16) * 4 + 1], "=" >>
  ELSE << B64Chars[(b[1] \div 4) + 1],
          B64Chars[(b[1] % 4) * 16 + (b[2] \div 16) + 1],
          B64Chars[(b[2] % 16) * 4 + (b[3] \div 64) + 1],
          B64Chars[(b[3] % 64) + 1] >> \o b64encode(SubSeq(b, 4, Len(b)))

\* str.startswith("audio/") of lines 115 and 154, on the mime types the model
\* draws from: "audio" and "audiobook/mp3" begin with the letters but not
\* with the prefix.
StartsWithAudio(mime_type) == mime_type \in {"audio/pcm", "audio/wav"}

\* ------------------------------------------------------ runtime events

\* Values of part.text and of the bytes of part.inline_data.data.
NoText == <<>>
Hi == << "H", "i" >>
NoInline == [present |-> FALSE, mime_type |-> "", data |-> <<>>]
Inline(mime_type, data) == [present |-> TRUE, mime_type |-> mime_type, data |-> data]

\* event.content.parts[0] as line 93 reads it: kind "none" when the content
\* or its parts are missing or empty, "other" for an object that is not a
\* types.Part, "Part" for a types.Part with its text and inline_data.
NoPart == [kind |-> "none", text |-> NoText, inline |-> NoInline]
OtherPart == [kind |-> "other", text |-> Hi, inline |-> NoInline]
Part(text, inline) == [kind |-> "Part", text |-> text, inline |-> inline]

\* One item of live_events: None, or an Event with the fields the relay reads.
NoneEvent ==
  [is_none |-> TRUE, turn_complete |-> FALSE, interrupted |-> FALSE,
   partial |-> FALSE, part |-> NoPart]
Event(turn_complete, interrupted, partial, part) ==
  [is_none |-> FALSE, turn_complete |-> turn_complete,
   interrupted |-> interrupted, partial |-> partial, part |-> part]

PcmA == Inline("audio/pcm", << 65 >>)
WavAB == Inline("audio/wav", << 65, 66 >>)

\* The events the runtime may yield: every shape the relay tells apart.
Events ==
  { NoneEvent,
    Event(TRUE, FALSE, FALSE, NoPart),
    Event(FALSE, TRUE, FALSE, NoPart),
    Event(TRUE, TRUE, TRUE, Part(Hi, PcmA)),
    Event(FALSE, FALSE, FALSE, NoPart),
    Event(FALSE, FALSE, TRUE, OtherPart),
    Event(FALSE, FALSE, TRUE, Part(Hi, NoInline)),
    Event(FALSE, FALSE, FALSE, Part(Hi, NoInline)),
    Event(FALSE, FALSE, TRUE, Part(NoText, NoInline)),
    Event(FALSE, FALSE, FALSE, Part(NoText, PcmA)),
    Event(FALSE, FALSE, TRUE, Part(Hi, WavAB)),
    Event(FALSE, FALSE, FALSE, Part(Hi, Inline("audio/pcm", <<>>))),
    Event(FALSE, FALSE, TRUE, Part(NoText, Inline("image/png", << 65 >>))) }

\* ------------------------------------------------------- client frames

\* One text frame of the client: text that json.loads rejects ("garbage"),
\* a JSON document that is no object ("scalar"), or a JSON object, given by
\* its members.
Garbage == [kind |-> "garbage", obj |-> [none |-> TRUE]]
Scalar == [kind |-> "scalar", obj |-> [none |-> TRUE]]
Object(members) == [kind |-> "object", obj |-> members]

ClientFrames ==
  { Garbage,
    Scalar,
    Object([data |-> Hi]),
    Object([mime_type |-> "text/plain"]),
    Object([mime_type |-> "text/plain", data |-> Hi]),
    Object([mime_type |-> "text/plain", data |-> Hi, role |-> "model"]),
    Object([mime_type |-> "audio/pcm", data |-> << "Q", "Q", "=", "=" >>]),
    Object([mime_type |-> "audio/wav", data |-> << "Q", "U", "I", "=" >>]),
    Object([mime_type |-> "audio/pcm", data |-> << "Q", "Q", "=" >>]),
    Object([mime_type |-> "audio/pcm", data |-> << "Q", "!", "Q", "=", "=" >>]),
    Object([mime_type |-> "image/png", data |-> << "Q", "Q", "=", "=" >>]),
    Object([mime_type |-> "audio", data |-> << "Q", "Q", "=", "=" >>]) }

\* ------------------------------------------- agent_to_client_messaging

\* ControlMessage with the two values exchanged.
ControlMessage_Swapped(event) ==
  [turn_complete |-> event.interrupted, interrupted |-> event.turn_complete]

\* The control message of lines 84-87.
ControlMessage(event) ==
  [turn_complete |-> event.turn_complete, interrupted |-> event.interrupted]

\* TextMessages without the test of event.partial.
TextMessages_IgnoresPartial(event) ==
  IF event.part.text # NoText
    THEN << [mime_type |-> "text/plain", data |-> event.part.text, role |-> "model"] >>
    ELSE << >>

\* Lines 102-108: the text message of a part, sent for partial events only.
TextMessages(event) ==
  IF event.part.text # NoText /\ event.partial
    THEN << [mime_type |-> "text/plain", data |-> event.part.text, role |-> "model"] >>
    ELSE << >>

\* AudioMessages with the mime type fixed to "audio/pcm".
AudioMessages_FixedPcm(event) ==
  LET inline == event.part.inline
      is_audio == /\ inline.present
                  /\ inline.mime_type # ""
                  /\ StartsWithAudio(inline.mime_type)
  IN IF is_audio /\ inline.data # <<>>
       THEN << [mime_type |-> "audio/pcm", data |-> b64encode(inline.data),
                role |-> "model"] >>
       ELSE << >>

\* Lines 112-128: the audio message of a part.
AudioMessages(event) ==
  LET inline == event.part.inline
      is_audio == /\ inline.present
                  /\ inline.mime_type # ""
                  /\ StartsWithAudio(inline.mime_type)
  IN IF is_audio /\ inline.data # <<>>
       THEN << [mime_type |-> inline.mime_type, data |-> b64encode(inline.data),
                role |-> "model"] >>
       ELSE << >>

\* OutMessages without the continue of line 90: the body goes on to the
\* content after the control message.
OutMessages_NoContinue(event) ==
  IF event.is_none THEN << >>
  ELSE (IF event.turn_complete \/ event.interrupted
          THEN << ControlMessage(event) >> ELSE << >>)
       \o (IF event.part.kind # "Part" THEN << >>
           ELSE TextMessages(event) \o AudioMessages(event))

\* OutMessages with the audio branch of lines 111-129 run before the text
\* branch of lines 100-109.
OutMessages_AudioFirst(event) ==
  IF event.is_none THEN << >>
  ELSE IF event.turn_complete \/ event.interrupted THEN << ControlMessage(event) >>
  ELSE IF event.part.kind = "none" THEN << >>
  ELSE IF event.part.kind # "Part" THEN << >>
  ELSE AudioMessages(event) \o TextMessages(event)

\* OutMessages with the text branch as the else of the audio branch.
OutMessages_AudioElseText(event) ==
  IF event.is_none THEN << >>
  ELSE IF event.turn_complete \/ event.interrupted THEN << ControlMessage(event) >>
  ELSE IF event.part.kind = "none" THEN << >>
  ELSE IF event.part.kind # "Part" THEN << >>
  ELSE IF AudioMessages(event) # << >> THEN AudioMessages(event)
  ELSE TextMessages(event)

\* The body of the async for loop, lines 79-129: the messages one event makes
\* the relay pass to websocket.send_text, in the order of the calls.
OutMessages(event) ==
  IF event.is_none THEN << >>
  ELSE IF event.turn_complete \/ event.interrupted THEN << ControlMessage(event) >>
  ELSE IF event.part.kind = "none" THEN << >>
  ELSE IF event.part.kind # "Part" THEN << >>
  ELSE TextMessages(event) \o AudioMessages(event)

\* ------------------------------------------- client_to_agent_messaging

\* json.loads(message_json), line 142.
json_loads(frame) ==
  IF frame.kind = "garbage" THEN Raise ELSE [raised |-> FALSE, value |-> frame]

\* RoleOf without the role member of the message.
RoleOf_AlwaysUser(obj) == "user"

\* message.get("role", "user"), line 145.
RoleOf(obj) == IF "role" \in DOMAIN obj THEN obj.role ELSE "user"

\* Dispatch with an exception raised for an unsupported mime type.
Dispatch_UnsupportedRaises(obj) ==
  IF obj.mime_type = "text/plain"
    THEN [act |-> "enqueue",
          cmd |-> [op |-> "send_content", role |-> RoleOf(obj), text |-> obj.data]]
  ELSE IF obj.mime_type = "audio/pcm" \/ StartsWithAudio(obj.mime_type)
    THEN LET decoded_data == b64decode(obj.data) IN
         IF decoded_data.raised
           THEN [act |-> "raise"]
           ELSE [act |-> "enqueue",
                 cmd |-> [op |-> "send_realtime", mime_type |-> obj.mime_type,
                          data |-> decoded_data.bytes]]
  ELSE [act |-> "raise"]

\* Lines 148-166 for a decoded object with both members: what the relay does
\* with it.  "enqueue" carries the command handed to live_request_queue.
Dispatch(obj) ==
  IF obj.mime_type = "text/plain"
    THEN [act |-> "enqueue",
          cmd |-> [op |-> "send_content", role |-> RoleOf(obj), text |-> obj.data]]
  ELSE IF obj.mime_type = "audio/pcm" \/ StartsWithAudio(obj.mime_type)
    THEN LET decoded_data == b64decode(obj.data) IN
         IF decoded_data.raised
           THEN [act |-> "raise"]
           ELSE [act |-> "enqueue",
                 cmd |-> [op |-> "send_realtime", mime_type |-> obj.mime_type,
                          data |-> decoded_data.bytes]]
  ELSE [act |-> "warn"]

\* The body of the while loop after receive_text returned, lines 142-166:
\* "raise" when a statement raises (json.loads, message["mime_type"],
\* message["data"], b64decode), else the branch taken.
InStep(frame) ==
  LET message == json_loads(frame) IN
  IF message.raised THEN [act |-> "raise"]
  ELSE IF message.value.kind # "object" THEN [act |-> "raise"]
  ELSE IF "mime_type" \notin DOMAIN message.value.obj THEN [act |-> "raise"]
  ELSE IF "data" \notin DOMAIN message.value.obj THEN [act |-> "raise"]
  ELSE Dispatch(message.value.obj)

\* ------------------------------------------------- start_agent_session

\* Lines 34-55: the RunConfig built from the flag is_audio.
RunConfig(is_audio) ==
  [response_modalities |-> << IF is_audio THEN "AUDIO" ELSE "TEXT" >>,
   input_audio_transcription |-> TRUE,
   output_audio_transcription |-> is_audio]

\* ----------------------------------------------------------------- state

VARIABLES
  pc,                 \* websocket_endpoint: where each coordinator stands
  session_id,         \* its path parameter
  is_audio,           \* its query parameter
  session_service,    \* the ids of the sessions the process-wide registry holds
  run_config,         \* the RunConfig start_agent_session built for the connection
  a2c,                \* the task agent_to_client_task: status and messages to send
  c2a,                \* the task client_to_agent_task: status
  must_cancel,        \* the tasks task.cancel() was called on
  live_events,        \* the events the outbound relay took from the stream
  handled,            \* how many of them it has finished handling
  sent,               \* the frames websocket.send_text wrote, each with the
                      \* number of the event whose handling wrote it
  received,           \* the frames websocket.receive_text returned
  live_request_queue, \* the commands enqueued, each with the number of the
                      \* frame whose handling enqueued it
  log                 \* the lines printed, without the per-message echoes

vars ==
  << pc, session_id, is_audio, session_service, run_config, a2c, c2a,
     must_cancel, live_events, handled, sent, received, live_request_queue, log >>

NoConfig == [response_modalities |-> << >>,
             input_audio_transcription |-> FALSE,
             output_audio_transcription |-> FALSE]

Init ==
  /\ pc = [c \in Conns |-> "idle"]
  /\ session_id = [c \in Conns |-> "-"]
  /\ is_audio = [c \in Conns |-> "-"]
  /\ session_service = {}
  /\ run_config = [c \in Conns |-> NoConfig]
  /\ a2c = [c \in Conns |-> [st |-> "none", pending |-> << >>]]
  /\ c2a = [c \in Conns |-> [st |-> "none"]]
  /\ must_cancel = [c \in Conns |-> {}]
  /\ live_events = [c \in Conns |-> << >>]
  /\ handled = [c \in Conns |-> 0]
  /\ sent = [c \in Conns |-> << >>]
  /\ received = [c \in Conns |-> << >>]
  /\ live_request_queue = [c \in Conns |-> << >>]
  /\ log = [c \in Conns |-> << >>]

\* A task that has returned, raised or been cancelled.
Ended(st) == st \in {"done", "cancelled"}

RECURSIVE SumOver(_, _)
SumOver(f, S) ==
  IF S = {} THEN 0
  ELSE LET x == CHOOSE y \in S : TRUE IN f[x] + SumOver(f, S \ {x})

\* The inputs taken from the environment so far.
InputsUsed ==
  SumOver([c \in Conns |-> Len(live_events[c]) + Len(received[c])], Conns)

\* --------------------------------------------------- websocket_endpoint

relay_vars ==
  << a2c, c2a, must_cancel, live_events, handled, sent, received,
     live_request_queue >>

\* A client connects: the handler is called with its parameters and awaits
\* websocket.accept() (line 189).
Connect(c, sid, q) ==
  /\ pc[c] = "idle"
  /\ pc' = [pc EXCEPT ![c] = "accept"]
  /\ session_id' = [session_id EXCEPT ![c] = sid]
  /\ is_audio' = [is_audio EXCEPT ![c] = q]
  /\ UNCHANGED << session_service, run_config, relay_vars, log >>

\* websocket.accept() raises (the client left during the handshake): the
\* except clause of line 220 and the finally clause of line 222 run.
AcceptRaises(c) ==
  /\ pc[c] = "accept"
  /\ pc' = [pc EXCEPT ![c] = "closed"]
  /\ log' = [log EXCEPT ![c] = @ \o << "websocket_error", "disconnected" >>]
  /\ UNCHANGED << session_id, is_audio, session_service, run_config, relay_vars >>

\* StartSessionOk with the query string passed on as the flag, so that any
\* non-empty value selects audio.
StartSessionOk_Truthy(c) ==
  /\ pc[c] = "accept"
  /\ pc' = [pc EXCEPT ![c] = "wait"]
  /\ session_service' = session_service \cup {session_id[c]}
  /\ run_config' = [run_config EXCEPT ![c] = RunConfig(is_audio[c] # "")]
  /\ a2c' = [a2c EXCEPT ![c].st = "ready"]
  /\ c2a' = [c2a EXCEPT ![c].st = "ready"]
  /\ log' = [log EXCEPT ![c] = Append(@, "connected")]
  /\ UNCHANGED << session_id, is_audio, must_cancel, live_events, handled,
                  sent, received, live_request_queue >>

\* Lines 190-210 when start_agent_session returns: the session is created in
\* the registry, the RunConfig is built, both tasks are created and the
\* coordinator awaits asyncio.wait.
StartSessionOk(c) ==
  /\ pc[c] = "accept"
  /\ pc' = [pc EXCEPT ![c] = "wait"]
  /\ session_service' = session_service \cup {session_id[c]}
  /\ run_config' = [run_config EXCEPT ![c] = RunConfig(is_audio[c] = "true")]
  /\ a2c' = [a2c EXCEPT ![c].st = "ready"]
  /\ c2a' = [c2a EXCEPT ![c].st = "ready"]
  /\ log' = [log EXCEPT ![c] = Append(@, "connected")]
  /\ UNCHANGED << session_id, is_audio, must_cancel, live_events, handled,
                  sent, received, live_request_queue >>

\* StartSessionRaises with the tasks created before the session is started.
StartSessionRaises_TasksCreated(c, created) ==
  /\ pc[c] = "accept"
  /\ pc' = [pc EXCEPT ![c] = "closed"]
  /\ session_service' =
       IF created THEN session_service \cup {session_id[c]} ELSE session_service
  /\ a2c' = [a2c EXCEPT ![c].st = "ready"]
  /\ c2a' = [c2a EXCEPT ![c].st = "ready"]
  /\ log' = [log EXCEPT ![c] =
       @ \o << "connected", "start_error", "websocket_error", "disconnected" >>]
  /\ UNCHANGED << session_id, is_audio, run_config, must_cancel, live_events,
                  handled, sent, received, live_request_queue >>

\* Lines 190-195 when start_agent_session raises, in create_session (created
\* = FALSE) or in a later call (created = TRUE): it prints and re-raises
\* (lines 69-71), the handler prints (line 221) and ends (line 223).
StartSessionRaises(c, created) ==
  /\ pc[c] = "accept"
  /\ pc' = [pc EXCEPT ![c] = "closed"]
  /\ session_service' =
       IF created THEN session_service \cup {session_id[c]} ELSE session_service
  /\ log' = [log EXCEPT ![c] =
       @ \o << "connected", "start_error", "websocket_error", "disconnected" >>]
  /\ UNCHANGED << session_id, is_audio, run_config, relay_vars >>

\* The tasks asyncio.wait reports as pending when it returns.
PendingTasks(c) ==
  (IF Ended(a2c[c].st) THEN {} ELSE {"a2c"})
    \cup (IF Ended(c2a[c].st) THEN {} ELSE {"c2a"})

\* WaitReturns without the call of task.cancel(): the pending task is only
\* awaited.
WaitReturns_NoCancel(c) ==
  /\ pc[c] = "wait"
  /\ a2c[c].st # "ready" /\ c2a[c].st # "ready"
  /\ Ended(a2c[c].st) \/ Ended(c2a[c].st)
  /\ IF PendingTasks(c) = {}
       THEN /\ pc' = [pc EXCEPT ![c] = "closed"]
            /\ log' = [log EXCEPT ![c] = Append(@, "disconnected")]
       ELSE /\ pc' = [pc EXCEPT ![c] = "cancel"]
            /\ UNCHANGED log
  /\ UNCHANGED << session_id, is_audio, session_service, run_config, a2c, c2a,
                  must_cancel, live_events, handled, sent, received,
                  live_request_queue >>

\* WaitReturns with every running task of the process cancelled (the tasks
\* of asyncio.all_tasks() instead of those of pending).
WaitReturns_CancelsAll(c) ==
  /\ pc[c] = "wait"
  /\ a2c[c].st # "ready" /\ c2a[c].st # "ready"
  /\ Ended(a2c[c].st) \/ Ended(c2a[c].st)
  /\ IF PendingTasks(c) = {}
       THEN /\ pc' = [pc EXCEPT ![c] = "closed"]
            /\ log' = [log EXCEPT ![c] = Append(@, "disconnected")]
            /\ UNCHANGED must_cancel
       ELSE /\ pc' = [pc EXCEPT ![c] = "cancel"]
            /\ must_cancel' =
                 [d \in Conns |->
                    (IF a2c[d].st \in {"iter", "send"} THEN {"a2c"} ELSE {})
                      \cup (IF c2a[d].st = "recv" THEN {"c2a"} ELSE {})]
            /\ UNCHANGED log
  /\ UNCHANGED << session_id, is_audio, session_service, run_config, a2c, c2a,
                  live_events, handled, sent, received, live_request_queue >>

\* asyncio.wait returns (line 207): a task is done.  The event loop runs
\* callbacks in the order they were scheduled, so both tasks have run their
\* first step by then.  With a task pending, the coordinator calls
\* task.cancel() and awaits the task (lines 213-216); with none, it goes on
\* to the finally clause.
WaitReturns(c) ==
  /\ pc[c] = "wait"
  /\ a2c[c].st # "ready" /\ c2a[c].st # "ready"
  /\ Ended(a2c[c].st) \/ Ended(c2a[c].st)
  /\ IF PendingTasks(c) = {}
       THEN /\ pc' = [pc EXCEPT ![c] = "closed"]
            /\ log' = [log EXCEPT ![c] = Append(@, "disconnected")]
            /\ UNCHANGED must_cancel
       ELSE /\ pc' = [pc EXCEPT ![c] = "cancel"]
            /\ must_cancel' = [must_cancel EXCEPT ![c] = PendingTasks(c)]
            /\ UNCHANGED log
  /\ UNCHANGED << session_id, is_audio, session_service, run_config, a2c, c2a,
                  live_events, handled, sent, received, live_request_queue >>

\* CancelAwaited without the await of the cancelled task.
CancelAwaited_NotAwaited(c) ==
  /\ pc[c] = "cancel"
  /\ pc' = [pc EXCEPT ![c] = "closed"]
  /\ log' = [log EXCEPT ![c] = Append(@, "disconnected")]
  /\ UNCHANGED << session_id, is_audio, session_service, run_config, relay_vars >>

\* CancelAwaited with the CancelledError reaching the except clause of
\* line 220.
CancelAwaited_Reported(c) ==
  /\ pc[c] = "cancel"
  /\ PendingTasks(c) = {}
  /\ pc' = [pc EXCEPT ![c] = "closed"]
  /\ log' = [log EXCEPT ![c] = @ \o << "websocket_error", "disconnected" >>]
  /\ UNCHANGED << session_id, is_audio, session_service, run_config, relay_vars >>

\* The awaited task has exited with CancelledError: lines 217-218 absorb it
\* and the finally clause prints the disconnect (line 223).
\* CancelAwaited with the coordinator writing a closing frame to the
\* transport before it returns.
CancelAwaited_WritesFrame(c) ==
  /\ pc[c] = "cancel"
  /\ PendingTasks(c) = {}
  /\ pc' = [pc EXCEPT ![c] = "closed"]
  /\ log' = [log EXCEPT ![c] = Append(@, "disconnected")]
  /\ sent' = [sent EXCEPT ![c] =
       Append(@, [event |-> 0, frame |-> [turn_complete |-> TRUE, interrupted |-> FALSE]])]
  /\ UNCHANGED << session_id, is_audio, session_service, run_config, a2c, c2a,
                  must_cancel, live_events, handled, received, live_request_queue >>

CancelAwaited(c) ==
  /\ pc[c] = "cancel"
  /\ PendingTasks(c) = {}
  /\ pc' = [pc EXCEPT ![c] = "closed"]
  /\ log' = [log EXCEPT ![c] = Append(@, "disconnected")]
  /\ UNCHANGED << session_id, is_audio, session_service, run_config, relay_vars >>

\* ------------------------------------------- agent_to_client_messaging

coord_vars == << pc, session_id, is_audio, session_service, run_config >>

in_vars == << c2a, received, live_request_queue >>

\* The task's first step: it runs to the first await of the async for
\* (line 78).
A2CStart(c) ==
  /\ a2c[c].st = "ready"
  /\ a2c' = [a2c EXCEPT ![c].st = "iter"]
  /\ UNCHANGED << coord_vars, in_vars, must_cancel, live_events, handled, sent, log >>

\* The stream yields an event: the loop body runs up to its first
\* websocket.send_text, or to the end when the event makes no message.
A2CEvent(c, event) ==
  /\ a2c[c].st = "iter"
  /\ "a2c" \notin must_cancel[c]
  /\ live_events' = [live_events EXCEPT ![c] = Append(@, event)]
  /\ IF OutMessages(event) = << >>
       THEN /\ handled' = [handled EXCEPT ![c] = @ + 1]
            /\ UNCHANGED a2c
       ELSE /\ a2c' = [a2c EXCEPT ![c] = [st |-> "send", pending |-> OutMessages(event)]]
            /\ UNCHANGED handled
  /\ UNCHANGED << coord_vars, in_vars, must_cancel, sent, log >>

\* A2CSendReturns with the frame put in front of the frames written before.
A2CSendReturns_Prepend(c) ==
  /\ a2c[c].st = "send"
  /\ "a2c" \notin must_cancel[c]
  /\ sent' = [sent EXCEPT ![c] =
       << [event |-> Len(live_events[c]), frame |-> Head(a2c[c].pending)] >> \o @]
  /\ IF Tail(a2c[c].pending) = << >>
       THEN /\ a2c' = [a2c EXCEPT ![c] = [st |-> "iter", pending |-> << >>]]
            /\ handled' = [handled EXCEPT ![c] = @ + 1]
       ELSE /\ a2c' = [a2c EXCEPT ![c].pending = Tail(@)]
            /\ UNCHANGED handled
  /\ UNCHANGED << coord_vars, in_vars, must_cancel, live_events, log >>

\* websocket.send_text returns (lines 88, 108, 128): the frame is written and
\* the body goes on, to the next send_text or to the next event.
A2CSendReturns(c) ==
  /\ a2c[c].st = "send"
  /\ "a2c" \notin must_cancel[c]
  /\ sent' = [sent EXCEPT ![c] =
       Append(@, [event |-> Len(live_events[c]), frame |-> Head(a2c[c].pending)])]
  /\ IF Tail(a2c[c].pending) = << >>
       THEN /\ a2c' = [a2c EXCEPT ![c] = [st |-> "iter", pending |-> << >>]]
            /\ handled' = [handled EXCEPT ![c] = @ + 1]
       ELSE /\ a2c' = [a2c EXCEPT ![c].pending = Tail(@)]
            /\ UNCHANGED handled
  /\ UNCHANGED << coord_vars, in_vars, must_cancel, live_events, log >>

\* A2CSendRaises without the except clause of line 131: the exception ends
\* the task as failed and nothing is printed.
A2CSendRaises_Propagates(c) ==
  /\ a2c[c].st = "send"
  /\ "a2c" \notin must_cancel[c]
  /\ a2c' = [a2c EXCEPT ![c] = [st |-> "failed", pending |-> << >>]]
  /\ UNCHANGED << coord_vars, in_vars, must_cancel, live_events, handled, sent, log >>

\* websocket.send_text raises (the transport is closed): line 131 catches
\* it, line 132 prints, the task returns.
A2CSendRaises(c) ==
  /\ a2c[c].st = "send"
  /\ "a2c" \notin must_cancel[c]
  /\ a2c' = [a2c EXCEPT ![c] = [st |-> "done", pending |-> << >>]]
  /\ log' = [log EXCEPT ![c] = Append(@, "a2c_error")]
  /\ UNCHANGED << coord_vars, in_vars, must_cancel, live_events, handled, sent >>

\* The stream is exhausted: the async for ends and the task returns.
A2CStreamEnds(c) ==
  /\ a2c[c].st = "iter"
  /\ "a2c" \notin must_cancel[c]
  /\ a2c' = [a2c EXCEPT ![c].st = "done"]
  /\ UNCHANGED << coord_vars, in_vars, must_cancel, live_events, handled, sent, log >>

\* The stream raises: caught and printed (lines 131-132), the task returns.
A2CStreamRaises(c) ==
  /\ a2c[c].st = "iter"
  /\ "a2c" \notin must_cancel[c]
  /\ a2c' = [a2c EXCEPT ![c].st = "done"]
  /\ log' = [log EXCEPT ![c] = Append(@, "a2c_error")]
  /\ UNCHANGED << coord_vars, in_vars, must_cancel, live_events, handled, sent >>

\* The task is cancelled at its await: CancelledError is no Exception, so
\* line 131 does not catch it and the task ends cancelled.  Cancelled inside
\* send_text, the frame may (written) or may not have reached the transport.
A2CCancelled(c, written) ==
  /\ "a2c" \in must_cancel[c]
  /\ a2c[c].st \in {"iter", "send"}
  /\ written => a2c[c].st = "send"
  /\ a2c' = [a2c EXCEPT ![c] = [st |-> "cancelled", pending |-> << >>]]
  /\ sent' = [sent EXCEPT ![c] =
       IF written
         THEN Append(@, [event |-> Len(live_events[c]), frame |-> Head(a2c[c].pending)])
         ELSE @]
  /\ UNCHANGED << coord_vars, in_vars, must_cancel, live_events, handled, log >>

\* ------------------------------------------- client_to_agent_messaging

out_vars == << a2c, live_events, handled, sent >>

\* The task's first step: it runs to websocket.receive_text (line 141).
C2AStart(c) ==
  /\ c2a[c].st = "ready"
  /\ c2a' = [c2a EXCEPT ![c].st = "recv"]
  /\ UNCHANGED << coord_vars, out_vars, must_cancel, received, live_request_queue, log >>

\* C2AFrame with the command put in front of the commands enqueued before.
C2AFrame_Prepend(c, frame) ==
  /\ c2a[c].st = "recv"
  /\ "c2a" \notin must_cancel[c]
  /\ received' = [received EXCEPT ![c] = Append(@, frame)]
  /\ LET step == InStep(frame) IN
       CASE step.act = "enqueue" ->
              /\ live_request_queue' = [live_request_queue EXCEPT ![c] =
                   << [frame |-> Len(received[c]) + 1, cmd |-> step.cmd] >> \o @]
              /\ UNCHANGED << c2a, log >>
         [] step.act = "warn" ->
              /\ log' = [log EXCEPT ![c] = Append(@, "unsupported_mime_type")]
              /\ UNCHANGED << c2a, live_request_queue >>
         [] step.act = "raise" ->
              /\ c2a' = [c2a EXCEPT ![c].st = "done"]
              /\ log' = [log EXCEPT ![c] = Append(@, "c2a_error")]
              /\ UNCHANGED live_request_queue
  /\ UNCHANGED << coord_vars, out_vars, must_cancel >>

\* receive_text returns a frame: the loop body runs (lines 142-166) and the
\* task is back at receive_text, or an exception leaves the loop for the
\* except clause of line 169 and the task returns.
C2AFrame(c, frame) ==
  /\ c2a[c].st = "recv"
  /\ "c2a" \notin must_cancel[c]
  /\ received' = [received EXCEPT ![c] = Append(@, frame)]
  /\ LET step == InStep(frame) IN
       CASE step.act = "enqueue" ->
              /\ live_request_queue' = [live_request_queue EXCEPT ![c] =
                   Append(@, [frame |-> Len(received[c]) + 1, cmd |-> step.cmd])]
              /\ UNCHANGED << c2a, log >>
         [] step.act = "warn" ->
              /\ log' = [log EXCEPT ![c] = Append(@, "unsupported_mime_type")]
              /\ UNCHANGED << c2a, live_request_queue >>
         [] step.act = "raise" ->
              /\ c2a' = [c2a EXCEPT ![c].st = "done"]
              /\ log' = [log EXCEPT ![c] = Append(@, "c2a_error")]
              /\ UNCHANGED live_request_queue
  /\ UNCHANGED << coord_vars, out_vars, must_cancel >>

\* receive_text raises WebSocketDisconnect (the client hung up): caught and
\* printed (lines 169-170), the task returns.
C2AReceiveRaises(c) ==
  /\ c2a[c].st = "recv"
  /\ "c2a" \notin must_cancel[c]
  /\ c2a' = [c2a EXCEPT ![c].st = "done"]
  /\ log' = [log EXCEPT ![c] = Append(@, "c2a_error")]
  /\ UNCHANGED << coord_vars, out_vars, must_cancel, received, live_request_queue >>

\* The task is cancelled at receive_text and ends cancelled.
C2ACancelled(c) ==
  /\ "c2a" \in must_cancel[c]
  /\ c2a[c].st = "recv"
  /\ c2a' = [c2a EXCEPT ![c].st = "cancelled"]
  /\ UNCHANGED << coord_vars, out_vars, must_cancel, received, live_request_queue, log >>

\* ------------------------------------------------------- specification

\* The steps of connection c, its session id drawn from sids.
Coordinator(c, sids) ==
  \/ \E sid \in sids, q \in QueryValues : Connect(c, sid, q)
  \/ AcceptRaises(c)
  \/ StartSessionOk(c)
  \/ \E created \in BOOLEAN : StartSessionRaises(c, created)
  \/ WaitReturns(c)
  \/ CancelAwaited(c)

Outbound(c) ==
  \/ A2CStart(c)
  \/ \E event \in Events : InputsUsed < MaxInputs /\ A2CEvent(c, event)
  \/ A2CSendReturns(c)
  \/ A2CSendRaises(c)
  \/ A2CStreamEnds(c)
  \/ A2CStreamRaises(c)
  \/ \E written \in BOOLEAN : A2CCancelled(c, written)

Inbound(c) ==
  \/ C2AStart(c)
  \/ \E frame \in ClientFrames : InputsUsed < MaxInputs /\ C2AFrame(c, frame)
  \/ C2AReceiveRaises(c)
  \/ C2ACancelled(c)

\* One connection.
Next == Coordinator("c1", {"s1"}) \/ Outbound("c1") \/ Inbound("c1")

Spec == Init /\ [][Next]_vars

\* Several connections served concurrently by the same process, each by its
\* own coordinator and relays.  The second connection may come with the
\* session id of the first or with another one.  The inputs are a turn
\* status and a text chunk from the runtime, and a frame that is no JSON and
\* a text frame from the client.
MultiEvents ==
  { Event(TRUE, FALSE, FALSE, NoPart),
    Event(FALSE, FALSE, TRUE, Part(Hi, NoInline)) }

MultiFrames ==
  { Garbage, Object([mime_type |-> "text/plain", data |-> Hi]) }

NextMulti ==
  \E c \in Conns :
    \/ \E sid \in (IF c = "c1" THEN {"s1"} ELSE SessionIds) : Connect(c, sid, "true")
    \/ AcceptRaises(c)
    \/ StartSessionOk(c)
    \/ \E created \in BOOLEAN : StartSessionRaises(c, created)
    \/ WaitReturns(c)
    \/ CancelAwaited(c)
    \/ A2CStart(c)
    \/ \E event \in MultiEvents : InputsUsed < MaxInputs /\ A2CEvent(c, event)
    \/ A2CSendReturns(c)
    \/ A2CSendRaises(c)
    \/ A2CStreamEnds(c)
    \/ A2CStreamRaises(c)
    \/ \E written \in BOOLEAN : A2CCancelled(c, written)
    \/ C2AStart(c)
    \/ \E frame \in MultiFrames : InputsUsed < MaxInputs /\ C2AFrame(c, frame)
    \/ C2AReceiveRaises(c)
    \/ C2ACancelled(c)

SpecMulti == Init /\ [][NextMulti]_vars

\* The event loop runs every callback it has scheduled: a created task takes
\* its first step, a cancelled task is resumed with CancelledError, and the
\* coordinator is resumed when what it awaits is done.  Nothing obliges the
\* client or the runtime to send anything.
Fairness ==
  /\ WF_vars(A2CStart("c1"))
  /\ WF_vars(C2AStart("c1"))
  /\ WF_vars(WaitReturns("c1"))
  /\ WF_vars(CancelAwaited("c1"))
  /\ WF_vars(\E written \in BOOLEAN : A2CCancelled("c1", written))
  /\ WF_vars(C2ACancelled("c1"))

FairSpec == Spec /\ Fairness

\* --------------------------------------------------------------- claims

\* The frames written while event number i of connection c was handled.
FramesOf(c, i) ==
  LET OfEvent(x) == x.event = i
      tagged == SelectSeq(sent[c], OfEvent)
  IN [k \in 1..Len(tagged) |-> tagged[k].frame]

\* The commands enqueued while frame number n of connection c was handled.
CommandsOf(c, n) ==
  LET OfFrame(x) == x.frame = n
      tagged == SelectSeq(live_request_queue[c], OfFrame)
  IN [k \in 1..Len(tagged) |-> tagged[k].cmd]

Count(seq, x) == Cardinality({k \in 1..Len(seq) : seq[k] = x})

IsControl(frame) == "turn_complete" \in DOMAIN frame

IsTextPlain(frame) ==
  "mime_type" \in DOMAIN frame /\ frame.mime_type = "text/plain"

\* C1: once both relays are started and one of them has ended, whatever the
\* reason, the coordinator eventually reaches CLOSED with the disconnect
\* logged and no relay left running: the other relay has returned by itself
\* or has been cancelled at the coordinator's request.
C1_RelayEndLeadsToClosed ==
  \A c \in Conns :
    (pc[c] = "wait" /\ (Ended(a2c[c].st) \/ Ended(c2a[c].st)))
      ~> (/\ pc[c] = "closed"
          /\ Ended(a2c[c].st) /\ Ended(c2a[c].st)
          /\ \A t \in must_cancel[c] :
               (IF t = "a2c" THEN a2c[c].st ELSE c2a[c].st) = "cancelled"
          /\ Count(log[c], "disconnected") = 1)

\* C1 witness: a connection is closed after one relay returned and the other
\* was cancelled on request.
C1_Witness ==
  \E c \in Conns :
    /\ pc[c] = "closed"
    /\ must_cancel[c] # {}
    /\ {a2c[c].st, c2a[c].st} = {"done", "cancelled"}

\* What the claim C2 calls a message that fails to decode: text that is no
\* JSON, a JSON object without mime_type or without data, or an audio message
\* whose data is no base64 (a character outside the alphabet, or a length
\* that is no multiple of four).
WellFormedBase64(s) ==
  /\ Len(s) % 4 = 0
  /\ \A k \in 1..Len(s) :
       \/ IsB64Char(s[k])
       \/ s[k] = "=" /\ k > Len(s) - 2 /\ \A j \in k..Len(s) : s[j] = "="

FailsToDecode(frame) ==
  \/ frame.kind = "garbage"
  \/ /\ frame.kind = "object"
     /\ \/ "mime_type" \notin DOMAIN frame.obj
        \/ "data" \notin DOMAIN frame.obj
        \/ /\ StartsWithAudio(frame.obj.mime_type)
           /\ ~WellFormedBase64(frame.obj.data)

\* C2: a step of the inbound relay that receives a message that fails to
\* decode enqueues no command, logs it, and leaves the relay awaiting the
\* next message.
C2_DecodeFailureIsSkipped ==
  [][\A c \in Conns :
       (received'[c] # received[c] /\ FailsToDecode(received'[c][Len(received'[c])]))
         => /\ live_request_queue'[c] = live_request_queue[c]
            /\ log'[c] # log[c]
            /\ c2a'[c].st = "recv"]_vars

\* C3 as stated: every handled event that reports a turn status, with any
\* combination of its two flags, has exactly one control message written
\* for it, carrying the event's two values.  An event reports a turn status
\* when a flag is set or when it carries no content at all.
ReportsTurnStatus(event) ==
  /\ ~event.is_none
  /\ event.turn_complete \/ event.interrupted \/ event.part.kind = "none"

C3_EveryFlagCombinationForwarded ==
  \A c \in Conns : \A i \in 1..handled[c] :
    ReportsTurnStatus(live_events[c][i])
      => FramesOf(c, i) =
           << [turn_complete |-> live_events[c][i].turn_complete,
               interrupted |-> live_events[c][i].interrupted] >>

\* C3 amended: every handled event with turn_complete or interrupted set has
\* exactly one frame written for it, the control message with the event's
\* two values, whatever content and partial flag it carries; and the step
\* that finishes handling it leaves the relay awaiting the next event, with
\* nothing logged.
C3_SetFlagForwardedOnce ==
  /\ [](\A c \in Conns : \A i \in 1..handled[c] :
          LET event == live_events[c][i] IN
          (~event.is_none /\ (event.turn_complete \/ event.interrupted))
            => FramesOf(c, i) =
                 << [turn_complete |-> event.turn_complete,
                     interrupted |-> event.interrupted] >>)
  /\ [][\A c \in Conns :
          (/\ handled'[c] = handled[c] + 1
           /\ live_events'[c][handled'[c]].turn_complete
                 \/ live_events'[c][handled'[c]].interrupted)
            => /\ a2c'[c] = [st |-> "iter", pending |-> << >>]
               /\ log'[c] = log[c]]_vars

\* C3 witness: an event with both flags set, text and audio has been handled
\* and the relay has taken a further event.
C3_Witness ==
  \E c \in Conns :
    /\ handled[c] >= 1
    /\ Len(live_events[c]) >= 2
    /\ live_events[c][1].turn_complete /\ live_events[c][1].interrupted
    /\ live_events[c][1].part.kind = "Part"
    /\ Len(FramesOf(c, 1)) = 1

\* C4: when start_agent_session has failed, the connection is closed, no
\* relay task exists, nothing was enqueued or written, and the log holds the
\* failure followed by the disconnect.
C4_StartFailureClosesWithoutRelays ==
  \A c \in Conns :
    Count(log[c], "start_error") > 0
      => /\ pc[c] = "closed"
         /\ a2c[c].st = "none" /\ c2a[c].st = "none"
         /\ sent[c] = << >> /\ live_request_queue[c] = << >>
         /\ received[c] = << >> /\ live_events[c] = << >>
         /\ log[c] = << "connected", "start_error", "websocket_error", "disconnected" >>

\* C4 witness: a connection whose session start failed.
C4_Witness ==
  \E c \in Conns : Count(log[c], "start_error") = 1 /\ pc[c] = "closed"

\* C5: in CLOSED neither relay task is running, and from then on nothing is
\* written to the client and nothing is enqueued to the runtime.
C5_NoRelayOutlivesClosed ==
  /\ [](\A c \in Conns :
          pc[c] = "closed"
            => a2c[c].st \in {"none", "done", "cancelled"}
               /\ c2a[c].st \in {"none", "done", "cancelled"})
  /\ [][\A c \in Conns :
          pc[c] = "closed"
            => /\ sent'[c] = sent[c]
               /\ live_request_queue'[c] = live_request_queue[c]
               /\ pc'[c] = "closed"]_vars

\* C5 witness: a closed connection whose outbound relay was cancelled while
\* it was inside send_text.
C5_Witness ==
  \E c \in Conns :
    /\ pc[c] = "closed"
    /\ a2c[c].st = "cancelled"
    /\ handled[c] < Len(live_events[c])

\* C6: the disconnect is logged exactly once, as the last line, when the
\* connection is closed and not before, on every path; a cancelled relay
\* never comes with a WebSocket error in the log.
C6_DisconnectLoggedOnce ==
  \A c \in Conns :
    /\ Count(log[c], "disconnected") = (IF pc[c] = "closed" THEN 1 ELSE 0)
    /\ pc[c] = "closed" => log[c][Len(log[c])] = "disconnected"
    /\ (a2c[c].st = "cancelled" \/ c2a[c].st = "cancelled")
         => Count(log[c], "websocket_error") = 0

\* C6 witness: the client hung up, the outbound relay was cancelled, the
\* connection is closed.
C6_Witness ==
  \E c \in Conns :
    /\ pc[c] = "closed"
    /\ c2a[c].st = "done" /\ a2c[c].st = "cancelled"
    /\ Count(log[c], "c2a_error") = 1

RECURSIVE Flatten(_)
Flatten(seqs) == IF seqs = << >> THEN << >> ELSE Head(seqs) \o Flatten(Tail(seqs))

IsPrefix(s, t) == Len(s) <= Len(t) /\ SubSeq(t, 1, Len(s)) = s

\* C7: the frames written are, in order, the frames of the events taken from
\* the stream in the order they were taken: a frame of a later event never
\* precedes a frame of an earlier one, and every frame of the events handled
\* so far is written before the next event is taken.
C7_OutboundOrder ==
  \A c \in Conns :
    LET frames == [k \in 1..Len(sent[c]) |-> sent[c][k].frame]
        per_event == [i \in 1..Len(live_events[c]) |-> OutMessages(live_events[c][i])]
    IN /\ \A j, k \in 1..Len(sent[c]) : j < k => sent[c][j].event <= sent[c][k].event
       /\ IsPrefix(frames, Flatten(per_event))
       /\ IsPrefix(Flatten(SubSeq(per_event, 1, handled[c])), frames)
       /\ handled[c] >= Len(live_events[c]) - 1

\* C7 witness: two events that make frames were handled, the second making
\* two.
C7_Witness ==
  \E c \in Conns :
    /\ handled[c] = 2
    /\ Len(FramesOf(c, 1)) = 1
    /\ Len(FramesOf(c, 2)) = 2

\* C8: the commands enqueued are, in order, the commands of the accepted
\* frames in the order the frames were received, text and audio alike.
C8_InboundOrder ==
  \A c \in Conns :
    LET cmds == [k \in 1..Len(live_request_queue[c]) |-> live_request_queue[c][k].cmd]
        per_frame == [n \in 1..Len(received[c]) |->
                        IF InStep(received[c][n]).act = "enqueue"
                          THEN << InStep(received[c][n]).cmd >> ELSE << >>]
    IN /\ \A j, k \in 1..Len(live_request_queue[c]) :
            j < k => live_request_queue[c][j].frame < live_request_queue[c][k].frame
       /\ cmds = Flatten(per_frame)

\* C8 witness: a text frame then an audio frame were received and enqueued.
C8_Witness ==
  \E c \in Conns :
    /\ Len(live_request_queue[c]) = 2
    /\ live_request_queue[c][1].cmd.op = "send_content"
    /\ live_request_queue[c][2].cmd.op = "send_realtime"

\* An event the relay treats as a content chunk: not None, no flag set, and
\* a types.Part as its first part.
IsContentChunk(event) ==
  /\ ~event.is_none
  /\ ~event.turn_complete /\ ~event.interrupted
  /\ event.part.kind = "Part"

\* C9: a text/plain frame is written only for an event with partial set: no
\* event with partial = false has a text/plain frame, whatever its text.
C9_FinalTextNotForwarded ==
  \A c \in Conns : \A k \in 1..Len(sent[c]) :
    IsTextPlain(sent[c][k].frame) => live_events[c][sent[c][k].event].partial

\* C9 witness: a content chunk with text and partial = false was handled.
C9_Witness ==
  \E c \in Conns : \E i \in 1..handled[c] :
    /\ IsContentChunk(live_events[c][i])
    /\ live_events[c][i].part.text # NoText
    /\ ~live_events[c][i].partial

\* C10: a handled content chunk with non-empty text and partial set has
\* exactly one text/plain frame written for it, with the text as data and
\* the role "model".
C10_PartialTextForwardedOnce ==
  \A c \in Conns : \A i \in 1..handled[c] :
    LET event == live_events[c][i] IN
    (IsContentChunk(event) /\ event.part.text # NoText /\ event.partial)
      => SelectSeq(FramesOf(c, i), IsTextPlain) =
           << [mime_type |-> "text/plain", data |-> event.part.text, role |-> "model"] >>

\* C10 witness: a partial chunk with text and audio was handled.
C10_Witness ==
  \E c \in Conns : \E i \in 1..handled[c] :
    /\ IsContentChunk(live_events[c][i])
    /\ live_events[c][i].part.text # NoText
    /\ live_events[c][i].partial
    /\ live_events[c][i].part.inline.present
    /\ Len(FramesOf(c, i)) = 2

\* A frame with a mime type other than text/plain.
IsAudioFrame(frame) ==
  "mime_type" \in DOMAIN frame /\ frame.mime_type # "text/plain"

\* The chunk carries an audio payload: inline data with a mime type that
\* starts with "audio/" and with bytes.
CarriesAudio(event) ==
  /\ event.part.inline.present
  /\ StartsWithAudio(event.part.inline.mime_type)
  /\ event.part.inline.data # << >>

\* C11: a handled content chunk has an audio frame written for it exactly
\* when it carries an audio payload; the frame then has the payload's mime
\* type, the role "model" and data that decodes to the payload's bytes.  A
\* chunk with neither partial text nor an audio payload has no frame, and
\* the step that handles it logs nothing and leaves the relay awaiting the
\* next event.
C11_AudioForwardedWhenPresent ==
  /\ [](\A c \in Conns : \A i \in 1..handled[c] :
          LET event == live_events[c][i]
              audio == SelectSeq(FramesOf(c, i), IsAudioFrame)
          IN IsContentChunk(event)
               => /\ CarriesAudio(event)
                      => /\ Len(audio) = 1
                         /\ audio[1].mime_type = event.part.inline.mime_type
                         /\ audio[1].role = "model"
                         /\ b64decode(audio[1].data) =
                              [raised |-> FALSE, bytes |-> event.part.inline.data]
                  /\ ~CarriesAudio(event) => audio = << >>
                  /\ (~CarriesAudio(event)
                        /\ ~(event.part.text # NoText /\ event.partial))
                       => FramesOf(c, i) = << >>)
  /\ [][\A c \in Conns :
          (/\ live_events'[c] # live_events[c]
           /\ LET event == live_events'[c][Len(live_events'[c])] IN
                /\ IsContentChunk(event)
                /\ ~CarriesAudio(event)
                /\ ~(event.part.text # NoText /\ event.partial))
            => /\ a2c'[c] = [st |-> "iter", pending |-> << >>]
               /\ handled'[c] = handled[c] + 1
               /\ sent'[c] = sent[c]
               /\ log'[c] = log[c]]_vars

\* C11 witness: a chunk with an audio/wav payload and a chunk with an
\* image/png payload and no text were handled.
C11_Witness ==
  \E c \in Conns : \E i, j \in 1..handled[c] :
    /\ IsContentChunk(live_events[c][i])
    /\ live_events[c][i].part.inline.mime_type = "audio/wav"
    /\ \E k \in 1..Len(FramesOf(c, i)) : FramesOf(c, i)[k].mime_type = "audio/wav"
    /\ IsContentChunk(live_events[c][j])
    /\ live_events[c][j].part.inline.mime_type = "image/png"
    /\ FramesOf(c, j) = << >>

\* A frame that is a JSON object with the members mime_type and data.
WellFormed(frame) ==
  /\ frame.kind = "object"
  /\ "mime_type" \in DOMAIN frame.obj
  /\ "data" \in DOMAIN frame.obj

\* A well-formed frame whose mime type is neither text/plain nor audio/*.
Unsupported(frame) ==
  /\ WellFormed(frame)
  /\ frame.obj.mime_type # "text/plain"
  /\ ~StartsWithAudio(frame.obj.mime_type)

\* C12: no command is ever enqueued for a well-formed frame with an
\* unsupported mime type, and the step that receives it logs the warning,
\* nothing else, and leaves the relay at receive_text.
C12_UnsupportedMimeSkipped ==
  /\ [](\A c \in Conns : \A n \in 1..Len(received[c]) :
          Unsupported(received[c][n]) => CommandsOf(c, n) = << >>)
  /\ [][\A c \in Conns :
          (/\ received'[c] # received[c]
           /\ Unsupported(received'[c][Len(received'[c])]))
            => /\ live_request_queue'[c] = live_request_queue[c]
               /\ log'[c] = Append(log[c], "unsupported_mime_type")
               /\ c2a'[c] = [st |-> "recv"]]_vars

\* C12 witness: an image/png frame was received, and a text frame after it
\* was enqueued.
C12_Witness ==
  \E c \in Conns :
    /\ Len(received[c]) = 2
    /\ received[c][1].kind = "object"
    /\ Unsupported(received[c][1])
    /\ received[c][1].obj.mime_type = "image/png"
    /\ Len(CommandsOf(c, 2)) = 1

\* C13: every received well-formed text/plain frame has exactly one command
\* enqueued for it, send_content with the frame's data as text and with the
\* frame's role, or "user" when the frame has none.
C13_TextEnqueuedWithRole ==
  \A c \in Conns : \A n \in 1..Len(received[c]) :
    LET frame == received[c][n] IN
    (WellFormed(frame) /\ frame.obj.mime_type = "text/plain")
      => CommandsOf(c, n) =
           << [op |-> "send_content",
               role |-> IF "role" \in DOMAIN frame.obj THEN frame.obj.role ELSE "user",
               text |-> frame.obj.data] >>

\* C13 witness: a text frame without role and a text frame with the role
\* "model" were received.
C13_Witness ==
  \E c \in Conns : \E n, m \in 1..Len(received[c]) :
    /\ WellFormed(received[c][n]) /\ WellFormed(received[c][m])
    /\ received[c][n].obj.mime_type = "text/plain"
    /\ received[c][m].obj.mime_type = "text/plain"
    /\ "role" \notin DOMAIN received[c][n].obj
    /\ "role" \in DOMAIN received[c][m].obj
    /\ CommandsOf(c, m)[1].role = "model"

\* A connection whose session is in use: its relays were started and the
\* coordinator has not reached CLOSED.
Active(c) == pc[c] \in {"wait", "cancel"}

\* C14: the registry holds the session of every active connection, and once
\* a connection is closed the registry holds no session for its id, unless
\* another active connection uses the same id.
C14_SessionDestroyedAtDisconnect ==
  \A c \in Conns :
    /\ Active(c) => session_id[c] \in session_service
    /\ (pc[c] = "closed"
          /\ ~\E d \in Conns \ {c} : Active(d) /\ session_id[d] = session_id[c])
         => session_id[c] \notin session_service

\* Everything the model holds for connection c.
ConnState(c) ==
  << pc[c], session_id[c], is_audio[c], run_config[c], a2c[c], c2a[c],
     must_cancel[c], live_events[c], handled[c], sent[c], received[c],
     live_request_queue[c], log[c] >>

\* C15: with several connections, a step that changes the state of one
\* connection (a decode failure, a relay exception, a failed session start, a
\* hangup, a cancellation) leaves the state of every other connection as it
\* was, and a relay is asked to cancel only after the other relay of the
\* same connection has returned.
C15_ConnectionsIndependent ==
  /\ [][\A c \in Conns :
          ConnState(c)' # ConnState(c)
            => \A d \in Conns \ {c} : ConnState(d)' = ConnState(d)]_vars
  /\ [](\A c \in Conns :
          /\ must_cancel[c] # {} => "done" \in {a2c[c].st, c2a[c].st}
          /\ pc[c] \in {"cancel", "closed"} /\ a2c[c].st # "none"
               => Ended(a2c[c].st) \/ Ended(c2a[c].st))

\* C15 witness: two connections with the same session id; one was closed by
\* a frame that is no JSON, the other is still active with both relays
\* running and a frame written to its client.
C15_Witness ==
  \E c, d \in Conns :
    /\ c # d
    /\ session_id[c] = session_id[d]
    /\ pc[c] = "closed" /\ Count(log[c], "c2a_error") = 1
    /\ Len(received[c]) = 1
    /\ pc[d] = "wait" /\ a2c[d].st = "iter" /\ c2a[d].st = "recv"
    /\ Len(sent[d]) = 1

\* C16: an exception in the outbound relay ends the task as done, with one
\* line printed by the relay and none by the coordinator: a relay that
\* leaves send_text uncancelled has printed its error and is done, a relay
\* that leaves the stream uncancelled is done, and the coordinator, once it
\* has moved on, has asked the inbound relay to cancel unless that relay
\* had returned too.
C16_OutboundExceptionEndsRelay ==
  /\ [](\A c \in Conns :
          Count(log[c], "a2c_error") > 0
            => /\ a2c[c].st = "done"
               /\ Count(log[c], "a2c_error") = 1
               /\ Count(log[c], "websocket_error") = 0
               /\ pc[c] \in {"cancel", "closed"}
                    => c2a[c].st = "done" \/ "c2a" \in must_cancel[c])
  /\ [][\A c \in Conns :
          (/\ a2c[c].st \in {"iter", "send"}
           /\ a2c'[c].st \notin {"iter", "send"}
           /\ "a2c" \notin must_cancel[c])
            => /\ a2c'[c].st = "done"
               /\ pc'[c] = pc[c]
               /\ IF a2c[c].st = "send"
                    THEN log'[c] = Append(log[c], "a2c_error")
                    ELSE log'[c] \in {log[c], Append(log[c], "a2c_error")}]_vars

\* C16 witness: send_text raised while an event was handled, the inbound
\* relay was cancelled and the connection is closed.
C16_Witness ==
  \E c \in Conns :
    /\ Count(log[c], "a2c_error") = 1
    /\ handled[c] < Len(live_events[c])
    /\ c2a[c].st = "cancelled"
    /\ pc[c] = "closed"

\* C17: each direction of the transport and of the session has one owner.
\* A frame is written, and an event taken from the stream, only in a step
\* of the outbound relay, which leaves the inbound relay's state alone; a
\* frame is read, and a command enqueued, only in a step of the inbound
\* relay, which leaves the outbound relay's state alone; a step of the
\* coordinator touches none of the four.
C17_SingleOwnerPerDirection ==
  [][\A c \in Conns :
       /\ sent'[c] # sent[c]
            => /\ a2c[c].st = "send"
               /\ pc'[c] = pc[c]
               /\ << c2a'[c], received'[c], live_request_queue'[c] >>
                    = << c2a[c], received[c], live_request_queue[c] >>
       /\ live_events'[c] # live_events[c]
            => /\ a2c[c].st = "iter"
               /\ pc'[c] = pc[c]
               /\ << c2a'[c], received'[c], live_request_queue'[c] >>
                    = << c2a[c], received[c], live_request_queue[c] >>
       /\ (received'[c] # received[c] \/ live_request_queue'[c] # live_request_queue[c])
            => /\ c2a[c].st = "recv"
               /\ Len(received'[c]) = Len(received[c]) + 1
               /\ pc'[c] = pc[c]
               /\ << a2c'[c], live_events'[c], handled'[c], sent'[c] >>
                    = << a2c[c], live_events[c], handled[c], sent[c] >>
       /\ pc'[c] # pc[c]
            => << sent'[c], received'[c], live_events'[c], live_request_queue'[c] >>
                 = << sent[c], received[c], live_events[c], live_request_queue[c] >>]_vars

\* C17 witness: a closed connection on which the outbound relay wrote a
\* frame and the inbound relay enqueued a command.
C17_Witness ==
  \E c \in Conns :
    /\ pc[c] = "closed"
    /\ sent[c] # << >>
    /\ live_request_queue[c] # << >>

\* C18: the RunConfig of a started session follows the is_audio query
\* value: the response modality is AUDIO exactly when the value is "true"
\* and TEXT otherwise, input transcription is enabled in both, output
\* transcription exactly under AUDIO; once built it never changes.
C18_RunConfigFixedByModality ==
  /\ [](\A c \in Conns :
          a2c[c].st # "none"
            => /\ run_config[c].response_modalities
                    = << IF is_audio[c] = "true" THEN "AUDIO" ELSE "TEXT" >>
               /\ run_config[c].input_audio_transcription
               /\ run_config[c].output_audio_transcription
                    <=> run_config[c].response_modalities = << "AUDIO" >>)
  /\ [][\A c \in Conns :
          run_config[c] # NoConfig
            => run_config'[c] = run_config[c] /\ is_audio'[c] = is_audio[c]]_vars

\* C18 witness: a connection opened with is_audio=1 ran its relays under a
\* TEXT configuration without output transcription and is closed.
C18_Witness ==
  \E c \in Conns :
    /\ is_audio[c] = "1"
    /\ pc[c] = "closed"
    /\ a2c[c].st = "done"
    /\ run_config[c].response_modalities = << "TEXT" >>
    /\ ~run_config[c].output_audio_transcription

\* C19: no content of an event with turn_complete or interrupted set is
\* forwarded: every frame written for such an event is a control message
\* without mime type, data or role, and while the relay is writing for such
\* an event no content frame is waiting to be written.
C19_ControlEventContentDropped ==
  \A c \in Conns :
    /\ \A k \in 1..Len(sent[c]) :
         LET event == live_events[c][sent[c][k].event] IN
         (event.turn_complete \/ event.interrupted)
           => DOMAIN sent[c][k].frame = {"turn_complete", "interrupted"}
    /\ (/\ a2c[c].st = "send"
        /\ live_events[c][Len(live_events[c])].turn_complete
             \/ live_events[c][Len(live_events[c])].interrupted)
         => \A k \in 1..Len(a2c[c].pending) :
              DOMAIN a2c[c].pending[k] = {"turn_complete", "interrupted"}

\* C19 witness: an event with a flag set that carries partial text and an
\* audio payload was handled, and the relay has returned.
C19_Witness ==
  \E c \in Conns : \E i \in 1..handled[c] :
    /\ live_events[c][i].turn_complete \/ live_events[c][i].interrupted
    /\ live_events[c][i].partial
    /\ live_events[c][i].part.text # NoText
    /\ CarriesAudio(live_events[c][i])
    /\ FramesOf(c, i) # << >>
    /\ a2c[c].st = "done"

\* C20: no event has more than two frames written for it; the frames of a
\* handled chunk with partial text and an audio payload are the text/plain
\* frame and then the audio frame, and whenever such a chunk has a frame
\* written its first one is the text/plain frame.  No received frame has
\* more than one command enqueued for it: send_content only for a
\* text/plain frame, send_realtime only for a frame of another mime type.
C20_AtMostTwoFramesTextFirst ==
  \A c \in Conns :
    /\ \A i \in 1..Len(live_events[c]) :
         LET event == live_events[c][i]
             frames == FramesOf(c, i)
         IN /\ Len(frames) <= 2
            /\ (IsContentChunk(event) /\ event.partial
                  /\ event.part.text # NoText /\ CarriesAudio(event))
                 => /\ frames # << >> => IsTextPlain(frames[1])
                    /\ Len(frames) = 2
                         => /\ frames[2].mime_type = event.part.inline.mime_type
                            /\ frames[2].role = "model"
                    /\ i <= handled[c] => Len(frames) = 2
    /\ \A n \in 1..Len(received[c]) :
         LET cmds == CommandsOf(c, n) IN
         /\ Len(cmds) <= 1
         /\ \A k \in 1..Len(cmds) :
              /\ cmds[k].op \in {"send_content", "send_realtime"}
              /\ cmds[k].op = "send_content"
                   <=> received[c][n].obj.mime_type = "text/plain"
              /\ cmds[k].op = "send_realtime"
                   <=> StartsWithAudio(received[c][n].obj.mime_type)

\* C20 witness: a chunk with partial text and audio had its two frames
\* written, text first, and a received frame had its command enqueued.
C20_Witness ==
  \E c \in Conns :
    /\ \E i \in 1..handled[c] :
         /\ CarriesAudio(live_events[c][i])
         /\ Len(FramesOf(c, i)) = 2
         /\ IsTextPlain(FramesOf(c, i)[1])
         /\ IsAudioFrame(FramesOf(c, i)[2])
    /\ \E n \in 1..Len(received[c]) : Len(CommandsOf(c, n)) = 1

====
